---- MODULE Spec2Model ----
(***************************************************************************)
(* A model of tethne.classes.corpus.Corpus (Python 2): construction,       *)
(* identity keys, inverted indices, selection, sub-corpora, the slice      *)
(* generator and feature_distribution.                                     *)
(*                                                                         *)
(* Paper objects live in the store `papers` (a Paper is identified by its  *)
(* position in the list handed to the constructor); corpora refer to them  *)
(* by that position.  A Python 2 dict iterates in hash order, which the    *)
(* language leaves open: the iteration order of indexed_papers is a        *)
(* permutation of its keys chosen when the dict is built.                  *)
(***************************************************************************)
EXTENDS Integers, Sequences, FiniteSets, TLC

VARIABLES papers, corpus, res, gen

vars == <<papers, corpus, res, gen>>

(* ------------------------------ bounds -------------------------------- *)

\* Longest list of Papers handed to the constructor.
MaxPapers == 2

\* Longest list of Papers handed to the constructor where one generator
\* slices the corpus.
MaxSlicePapers == 3

\* Longest list of Papers handed to the constructor where two generators
\* slice the corpus, and in the specification with fairness.
MaxIterPapers == 2

\* Number of consecutive years a date is drawn from.
NumYears == 3

\* Largest window_size and step_size passed to slice.
MaxWindow == 3

MaxStep == 2

\* Longest list given as a selector.
MaxSelLen == 2

Years == 2000 .. (2000 + NumYears - 1)

(* --------------------------- Python helpers --------------------------- *)

Range(s) == {s[i] : i \in DOMAIN s}

RECURSIVE Join(_, _)
\* sep.join(strs)
Join(strs, sep) ==
    IF Len(strs) = 0 THEN ""
    ELSE IF Len(strs) = 1 THEN strs[1]
    ELSE strs[1] \o sep \o Join(Tail(strs), sep)

\* range(a, b, 1)
PyRange(a, b) == [k \in 1 .. (IF b > a THEN b - a ELSE 0) |-> a + k - 1]

\* seq[i] with Python's zero-based and negative positions.
PyIndexOk(s, i) == -Len(s) <= i /\ i < Len(s)

PyIndex(s, i) == IF i >= 0 THEN s[i + 1] ELSE s[Len(s) + i + 1]

Perms(S) ==
    {o \in [1 .. Cardinality(S) -> S] : \A a, b \in DOMAIN o : a # b => o[a] # o[b]}

Min(S) == CHOOSE m \in S : \A x \in S : m <= x

Max(S) == CHOOSE m \in S : \A x \in S : x <= m

(* ------------------------------ Papers -------------------------------- *)
\* A Paper: title, authors (a Feature of <<<<last, first>>, weight>>) and
\* the optional attributes attrs, each a typed raw value
\* [type |-> "int" | "str" | "Feature", val |-> ...].

HasAttr(p, a) == a \in DOMAIN p.attrs

GetAttr(p, a) == p.attrs[a]

\* tethne.utilities._iterable: a scalar becomes a one-element list.
Iterable(value) ==
    IF value.type \in {"int", "str"} THEN <<value.val>> ELSE value.val

\* tethne.classes.feature.Feature(raw): the weighted tokens of raw.
Feature(value) == value.val

\* m.update(hashable); m.hexdigest(): a digest, taken to be collision free.
Md5(s) == "md5:" \o s

Hashable(paper) ==
    LET authors == [i \in DOMAIN paper.authors |-> paper.authors[i][1]]
    IN  Join(<<paper.title>> \o
             [i \in DOMAIN authors |-> authors[i][1] \o authors[i][2]], " ")

\* Corpus._generate_index: the key of a Paper.
GenerateIndex(index_by, paper) ==
    IF index_by = "None" \/ ~HasAttr(paper, index_by)
    THEN IF ~HasAttr(paper, "hashIndex")
         THEN Md5(Hashable(paper))
         ELSE GetAttr(paper, "hashIndex").val
    ELSE GetAttr(paper, index_by).val

\* The Paper after _generate_index(paper): hashIndex is memoized on it.
Memoized(index_by, paper) ==
    IF (index_by = "None" \/ ~HasAttr(paper, index_by))
       /\ ~HasAttr(paper, "hashIndex")
    THEN [paper EXCEPT !.attrs =
            @ @@ ("hashIndex" :> [type |-> "str", val |-> Md5(Hashable(paper))])]
    ELSE paper

(* ------------------------------ Corpus -------------------------------- *)

RECURSIVE DictFrom(_, _, _, _)
\* {self._generate_index(paper): paper for paper in papers}: a later Paper
\* with the key of an earlier one takes its place.
DictFrom(store, index_by, pids, d) ==
    IF pids = <<>> THEN d
    ELSE LET k == GenerateIndex(index_by, store[Head(pids)])
         IN  DictFrom(store, index_by, Tail(pids),
                      IF k \in DOMAIN d THEN [d EXCEPT ![k] = Head(pids)]
                      ELSE d @@ (k :> Head(pids)))

\* The store after the constructor resolved the key of every Paper given.
MemoizeAll(store, index_by, pids) ==
    [i \in DOMAIN store |->
        IF i \in Range(pids) THEN Memoized(index_by, store[i]) ELSE store[i]]

\* Corpus.papers: indexed_papers.values(), in the dict's iteration order.
Papers(c) == [i \in DOMAIN c.order |-> c.indexed_papers[c.order[i]]]

\* Corpus.__len__
CorpusLen(c) == Cardinality(DOMAIN c.indexed_papers)

\* Corpus.index_feature: the store built from the Papers' own attribute.
IndexFeature(store, c, feature_name) ==
    LET have == {i \in DOMAIN c.order :
                    HasAttr(store[Papers(c)[i]], feature_name)}
    IN  [k \in {c.order[i] : i \in have} |->
            Feature(GetAttr(store[c.indexed_papers[k]], feature_name))]

\* The key an element v of an attribute value is indexed under.
Normalize(value, v) ==
    LET v1 == IF value.type = "Feature" THEN SubSeq(v, 1, Len(v) - 1) ELSE v
        iter == value.type = "Feature"
    IN  IF iter /\ Len(v1) = 1 THEN v1[1] ELSE v1

RECURSIVE IndexValues(_, _, _, _)
\* The inner loop of Corpus.index: for v in _iterable(value).
IndexValues(idx, i, value, k) ==
    IF k > Len(Iterable(value)) THEN idx
    ELSE LET v_ == Normalize(value, Iterable(value)[k])
             idx1 == IF v_ \in DOMAIN idx THEN idx ELSE idx @@ (v_ :> <<>>)
         IN  IndexValues([idx1 EXCEPT ![v_] = Append(@, i)], i, value, k + 1)

RECURSIVE IndexPapers(_, _, _, _, _)
\* The outer loop of Corpus.index: for i, paper in indexed_papers.iteritems().
IndexPapers(store, c, attr, n, idx) ==
    IF n > Len(c.order) THEN idx
    ELSE LET i == c.order[n]
             paper == store[c.indexed_papers[i]]
         IN  IndexPapers(store, c, attr, n + 1,
                 IF HasAttr(paper, attr)
                 THEN IndexValues(idx, i, GetAttr(paper, attr), 1)
                 ELSE idx)

\* Corpus.index(attr): the new value of indices[attr].
Index(store, c, attr) == IndexPapers(store, c, attr, 1, <<>>)

\* Corpus.__init__(papers, index_by, index_fields, index_features), the
\* dict of Papers iterating in the order ord.
NewCorpus(store, pids, index_by, index_fields, index_features, ord) ==
    LET c0 == [index_by |-> index_by,
               indexed_papers |-> DictFrom(store, index_by, pids, <<>>),
               order |-> ord]
    IN  [index_by |-> index_by,
         indexed_papers |-> c0.indexed_papers,
         order |-> ord,
         features |-> [f \in index_features |-> IndexFeature(store, c0, f)],
         indices |-> [a \in index_fields |-> Index(store, c0, a)]]

\* The iteration orders a dict with the keys of d can have.
DictOrders(d) == Perms(DOMAIN d)

(* ----------------------------- selection ------------------------------ *)
\* A selector is one of
\*   [form |-> "pair", index |-> attr, islist |-> FALSE, value |-> v]
\*   [form |-> "pair", index |-> attr, islist |-> TRUE,  value |-> <<v, ...>>]
\*   [form |-> "keys", items |-> <<key, ...>>]     a list of strings
\*   [form |-> "ints", items |-> <<i, ...>>]       a list of ints
\*   [form |-> "int",  i |-> i]
\* and a selection ends [status |-> "ok", papers |-> <<Paper, ...>>] or with
\* the exception raised.

Raised(e) == [status |-> e, papers |-> <<>>]

Returned(ps) == [status |-> "ok", papers |-> ps]

\* SelectValue reading the index with .get(value, []): a missing attribute
\* or value selects nothing instead of raising.
SelectValueLenient(c, index, value) ==
    IF index \notin DOMAIN c.indices THEN Returned(<<>>)
    ELSE IF value \notin DOMAIN c.indices[index] THEN Returned(<<>>)
    ELSE Returned([n \in DOMAIN c.indices[index][value] |->
                      c.indexed_papers[c.indices[index][value][n]]])

\* [self.indexed_papers[p] for p in self.indices[index][value]]
SelectValue(c, index, value) ==
    IF index \notin DOMAIN c.indices THEN Raised("KeyError")
    ELSE IF value \notin DOMAIN c.indices[index] THEN Raised("KeyError")
    ELSE Returned([n \in DOMAIN c.indices[index][value] |->
                      c.indexed_papers[c.indices[index][value][n]]])

RECURSIVE SelectValues(_, _, _, _)
\* [p for v in value for p in self[index, v]]
SelectValues(c, index, value, acc) ==
    IF value = <<>> THEN Returned(acc)
    ELSE LET r == SelectValue(c, index, Head(value))
         IN  IF r.status # "ok" THEN r
             ELSE SelectValues(c, index, Tail(value), acc \o r.papers)

\* [self.indexed_papers[s] for s in selector]
SelectKeys(c, items) ==
    IF \E n \in DOMAIN items : items[n] \notin DOMAIN c.indexed_papers
    THEN Raised("KeyError")
    ELSE Returned([n \in DOMAIN items |-> c.indexed_papers[items[n]]])

\* [self.papers[i] for i in selector]
SelectInts(c, items) ==
    IF \E n \in DOMAIN items : ~PyIndexOk(Papers(c), items[n])
    THEN Raised("IndexError")
    ELSE Returned([n \in DOMAIN items |-> PyIndex(Papers(c), items[n])])

\* Corpus.select(selector)
Select(c, selector) ==
    CASE selector.form = "pair" ->
           IF selector.islist
           THEN SelectValues(c, selector.index, selector.value, <<>>)
           ELSE SelectValue(c, selector.index, selector.value)
      [] selector.form = "keys" ->
           IF selector.items = <<>> THEN Raised("IndexError")
           ELSE IF selector.items[1] \in DOMAIN c.indexed_papers
           THEN SelectKeys(c, selector.items)
           ELSE Raised("UnboundLocalError")
      [] selector.form = "ints" ->
           IF selector.items = <<>> THEN Raised("IndexError")
           ELSE SelectInts(c, selector.items)
      [] selector.form = "int" ->
           IF PyIndexOk(Papers(c), selector.i)
           THEN Returned(<<PyIndex(Papers(c), selector.i)>>)
           ELSE Raised("IndexError")

(* ----------------------------- sub-corpora ---------------------------- *)

\* featureset_name in subcorpus: Corpus has __getitem__ and no __contains__,
\* so the test walks subcorpus[0], subcorpus[1], ... comparing each Paper
\* with the name until IndexError; a Paper is never equal to a str.
CorpusContains(c, name) == \E n \in DOMAIN Papers(c) : FALSE

\* The FeatureSet filled by new_featureset.add(k, f) for the items of
\* featureset whose key is a key of the sub-corpus.
TransferFeatureSet(featureset, s) ==
    [k \in {k \in DOMAIN featureset : k \in DOMAIN s.indexed_papers} |->
        featureset[k]]

\* The keys of the dict the constructor builds from the selected Papers.
SubKeys(store, c, pids) == DOMAIN DictFrom(store, c.index_by, pids, <<>>)

\* Subcorpus without the transfer loop: every store is the one the
\* constructor recomputed from the selected Papers' attributes.
SubcorpusRecomputed(store, c, pids, ord) ==
    NewCorpus(store, pids, c.index_by, DOMAIN c.indices, DOMAIN c.features, ord)

\* Corpus.subcorpus, from the Papers self[selector] returned, the new
\* dict of Papers iterating in the order ord.
Subcorpus(store, c, pids, ord) ==
    LET s == NewCorpus(store, pids, c.index_by, DOMAIN c.indices,
                       DOMAIN c.features, ord)
    IN  [s EXCEPT !.features =
            [f \in DOMAIN c.features |->
                IF ~CorpusContains(s, f)
                THEN TransferFeatureSet(c.features[f], s)
                ELSE s.features[f]]]

(* ------------------------------- inputs ------------------------------- *)

SeqsUpTo(S, n) == UNION {[1 .. k -> S] : k \in 0 .. n}

Titles == {"a", "b"}

Authors == {<< <<<<"x", "y">>, 1>> >>}

TokenValues == { << <<"x", 1>>, <<"y", 2>>, <<"x", 3>> >> }

Tokens == {"x", "y", "z"}

\* The attribute sets a Paper can carry.
AttrSets(dois, years, tokvals) ==
    LET opt(name, type, vals) ==
            {<<>>} \cup {(name :> [type |-> type, val |-> v]) : v \in vals}
    IN  {a @@ b @@ c : a \in opt("doi", "str", dois),
                       b \in opt("date", "int", years),
                       c \in opt("tokens", "Feature", tokvals)}

PaperSpace(titles, dois, years, tokvals) ==
    [title : titles, authors : Authors, attrs : AttrSets(dois, years, tokvals)]

\* A store a caller put under features after construction: the weights of
\* the "tokens" store scaled against the whole corpus.
Scaled(featureset) ==
    [k \in DOMAIN featureset |->
        [n \in DOMAIN featureset[k] |->
            <<featureset[k][n][1], 10 * featureset[k][n][2]>>]]

NoGen == [pc |-> "none"]

\* Corpus(inp, index_by, index_fields, index_features = ["tokens"]) for an
\* input list of lists, and whether a caller-made store was added.
InitFrom(lists, index_bys, fieldsets, assigned) ==
    \E inp \in lists, index_by \in index_bys, fields \in fieldsets,
       extra \in assigned :
        LET pids == [i \in DOMAIN inp |-> i]
            store == MemoizeAll(inp, index_by, pids)
        IN  \E ord \in DictOrders(DictFrom(inp, index_by, pids, <<>>)) :
                LET c == NewCorpus(store, pids, index_by, fields, {"tokens"}, ord)
                IN  /\ papers = store
                    /\ corpus = IF extra
                                THEN [c EXCEPT !.features =
                                        @ @@ ("scaled" :> Scaled(c.features["tokens"]))]
                                ELSE c
                    /\ res = [op |-> "none"]
                    /\ gen = [i \in {1, 2} |-> NoGen]

Init ==
    InitFrom(SeqsUpTo(PaperSpace(Titles, {"d1"}, {}, TokenValues), MaxPapers)
                 \ {<<>>},
             {"None", "doi"}, {{"date", "tokens"}}, {TRUE})

(* ----------------------------- selectors ------------------------------ *)

SelYears == {2000}

\* The keys a Paper of the input space can get.
KeySpace == {"d1"} \cup {Md5(Hashable([title |-> t, authors |-> a])) :
                            t \in Titles, a \in Authors}

\* The selector (attr, v).
Pair(attr, v) == [form |-> "pair", index |-> attr, islist |-> FALSE, value |-> v]

\* The selector (attr, [v, ...]).
PairList(attr, l) == [form |-> "pair", index |-> attr, islist |-> TRUE, value |-> l]

\* The selector [key, ...].
KeyList(l) == [form |-> "keys", items |-> l]

\* The selector [i, ...].
IntList(l) == [form |-> "ints", items |-> l]

\* The selector i.
Position(i) == [form |-> "int", i |-> i]

\* The selector of the given form.
Selector(form, attr, arg) ==
    CASE form = "pair" -> Pair(attr, arg)
      [] form = "pairlist" -> PairList(attr, arg)
      [] form = "keys" -> KeyList(arg)
      [] form = "ints" -> IntList(arg)
      [] form = "int" -> Position(arg)

ValueLists(vals) == SeqsUpTo(vals, MaxSelLen)

KeyLists == SeqsUpTo(KeySpace, MaxSelLen)

IntLists == SeqsUpTo(0 .. MaxPapers, MaxSelLen)

Positions == -1 .. MaxPapers

(* ------------------------------ actions ------------------------------- *)

\* corpus[selector]
SelectWith(form, attr, arg) ==
    LET selector == Selector(form, attr, arg)
    IN  /\ res.op = "none"
        /\ res' = [op |-> "select", selector |-> selector,
                   out |-> Select(corpus, selector)]
        /\ UNCHANGED <<papers, corpus, gen>>

DoSelect ==
    \/ \E v \in SelYears : SelectWith("pair", "date", v)
    \/ \E v \in Tokens : SelectWith("pair", "tokens", v)
    \/ \E l \in ValueLists(Tokens) : SelectWith("pairlist", "tokens", l)
    \/ \E v \in {"j"} : SelectWith("pair", "journal", v)
    \/ \E l \in ValueLists({"j"}) : SelectWith("pairlist", "journal", l)
    \/ \E l \in KeyLists : SelectWith("keys", "", l)
    \/ \E l \in IntLists : SelectWith("ints", "", l)
    \/ \E i \in Positions : SelectWith("int", "", i)

\* corpus.subcorpus(selector)
SubcorpusWith(form, attr, arg) ==
    LET selector == Selector(form, attr, arg)
        r == Select(corpus, selector)
    IN  /\ res.op = "none"
        /\ IF r.status # "ok"
           THEN /\ res' = [op |-> "subcorpus", selector |-> selector,
                           status |-> r.status]
                /\ UNCHANGED <<papers, corpus, gen>>
           ELSE \E ord \in Perms(SubKeys(papers, corpus, r.papers)) :
                   /\ res' = [op |-> "subcorpus", selector |-> selector,
                              status |-> "ok", selected |-> r.papers,
                              corpus |-> Subcorpus(papers, corpus, r.papers, ord)]
                   /\ papers' = MemoizeAll(papers, corpus.index_by, r.papers)
                   /\ UNCHANGED <<corpus, gen>>

DoSubcorpus ==
    \/ \E v \in Tokens : SubcorpusWith("pair", "tokens", v)
    \/ \E l \in ValueLists(Tokens) : SubcorpusWith("pairlist", "tokens", l)
    \/ \E l \in KeyLists : SubcorpusWith("keys", "", l)
    \/ \E l \in IntLists : SubcorpusWith("ints", "", l)

Next == DoSelect \/ DoSubcorpus

Spec == Init /\ [][Next]_vars

(* ------------------------------ slicing ------------------------------- *)
\* A generator made by corpus.slice(window_size, step_size) is
\*   [pc, window_size, step_size, start, end, out]
\* with pc "created" (the body has not begun), "loop" (at the while test),
\* "yielded" (suspended at the yield, out the pair it gave), "done"
\* (StopIteration), "raised" (the body ended with the exception err) or
\* "abandoned" (the consumer dropped it).

\* if 'date' not in self.indices: self.index('date')
WithDateIndex(store, c) ==
    IF "date" \in DOMAIN c.indices THEN c
    ELSE [c EXCEPT !.indices = @ @@ ("date" :> Index(store, c, "date"))]

\* The sub-corpus a consumer of slice is given, as its documents and its
\* stores (neither depends on the iteration order of the new dict).
Content(s) == [indexed_papers |-> s.indexed_papers, features |-> s.features]

\* selector = ('date', range(start, start + window_size, 1));
\* self.subcorpus(selector)
SliceWindow(store, c, start, window_size) ==
    LET r == SelectValues(c, "date", PyRange(start, start + window_size), <<>>)
    IN  IF r.status # "ok" THEN [status |-> r.status]
        ELSE [status |-> "ok",
              subcorpus |->
                  Content(Subcorpus(store, c, r.papers,
                      CHOOSE ord \in Perms(SubKeys(store, c, r.papers)) : TRUE))]

\* while start <= end - (window_size - 1)
SliceFits(start, end, window_size) == start <= end - (window_size - 1)

\* start += 1 whatever the step.
NextStartByOne(start, step_size) == start + 1

\* start += step_size
NextStart(start, step_size) == start + step_size

\* The loop variable as a cursor kept on the corpus: every generator
\* reads the one of the first generator that has begun.
SharedStart(i) ==
    gen[Min({j \in DOMAIN gen : "start" \in DOMAIN gen[j]})].start

\* The loop variable start of generator i: a local of its own frame.
LoopStart(i) == gen[i].start

\* corpus.slice(window_size, step_size): a generator object; no line of
\* the body runs before the first next().
SliceCall(i, window_size, step_size) ==
    /\ gen[i].pc = "none"
    /\ \A j \in DOMAIN gen :
          gen[j].pc # "none" =>
              /\ gen[j].window_size = window_size
              /\ gen[j].step_size = step_size
    /\ gen' = [gen EXCEPT ![i] = [pc |-> "created", window_size |-> window_size,
                                  step_size |-> step_size]]
    /\ UNCHANGED <<papers, corpus, res>>

\* The first next(): the date index is built if absent, start and end are
\* read off it (min and max of no key raise ValueError).
SliceBegin(i) ==
    /\ gen[i].pc = "created"
    /\ LET c == WithDateIndex(papers, corpus)
           dates == DOMAIN c.indices["date"]
       IN  /\ corpus' = c
           /\ gen' = [gen EXCEPT ![i] =
                  IF dates = {}
                  THEN [pc |-> "raised", err |-> "ValueError",
                        window_size |-> @.window_size, step_size |-> @.step_size]
                  ELSE [pc |-> "loop", window_size |-> @.window_size,
                        step_size |-> @.step_size,
                        start |-> Min(dates), end |-> Max(dates)]]
    /\ UNCHANGED <<papers, res>>

\* The while test and, if it holds, the body up to the yield.
SliceYield(i) ==
    /\ gen[i].pc = "loop"
    /\ LET g == gen[i]
           w == SliceWindow(papers, corpus, LoopStart(i), g.window_size)
       IN  gen' = [gen EXCEPT ![i] =
              IF ~SliceFits(LoopStart(i), g.end, g.window_size)
              THEN [g EXCEPT !.pc = "done"]
              ELSE IF w.status # "ok"
              THEN ("err" :> w.status) @@ [g EXCEPT !.pc = "raised"]
              ELSE ("out" :> [key |-> LoopStart(i), subcorpus |-> w.subcorpus])
                   @@ [g EXCEPT !.pc = "yielded"]]
    /\ UNCHANGED <<papers, corpus, res>>

\* next() on a suspended generator: start += step_size, back to the test;
\* the consumer still holds the pair it was given.
SliceResume(i) ==
    /\ gen[i].pc = "yielded"
    /\ gen' = [gen EXCEPT ![i] =
                  [@ EXCEPT !.pc = "loop",
                            !.start = NextStart(LoopStart(i), gen[i].step_size)]]
    /\ UNCHANGED <<papers, corpus, res>>

\* The consumer stops early and drops the generator.
SliceAbandon(i) ==
    /\ gen[i].pc \in {"created", "yielded"}
    /\ gen' = [gen EXCEPT ![i] = [pc |-> "abandoned",
                                  window_size |-> @.window_size,
                                  step_size |-> @.step_size]]
    /\ UNCHANGED <<papers, corpus, res>>

SliceStep(i) == SliceBegin(i) \/ SliceYield(i) \/ SliceResume(i)

DoSliceCall ==
    \E i \in DOMAIN gen, w \in 0 .. MaxWindow, st \in 0 .. MaxStep :
        SliceCall(i, w, st)

DoSliceBegin == \E i \in DOMAIN gen : SliceBegin(i)

DoSliceYield == \E i \in DOMAIN gen : SliceYield(i)

DoSliceResume == \E i \in DOMAIN gen : SliceResume(i)

DoSliceAbandon == \E i \in DOMAIN gen : SliceAbandon(i)

NextIter ==
    DoSliceCall \/ DoSliceBegin \/ DoSliceYield \/ DoSliceResume \/ DoSliceAbandon

TitleAt == <<"a", "b", "c", "d", "e", "f">>

\* Lists of Papers with pairwise distinct titles, each dated or not.
DatedLists(n, tokvals) ==
    UNION {{[i \in 1 .. k |-> [title |-> TitleAt[i],
                               authors |-> CHOOSE a \in Authors : TRUE,
                               attrs |-> as[i]]] :
               as \in [1 .. k -> AttrSets({}, Years, tokvals)]} :
           k \in 1 .. n}

InitSlice ==
    InitFrom(DatedLists(MaxSlicePapers, {}), {"None"},
             {{"tokens"}, {"date", "tokens"}}, {FALSE})

InitIter ==
    InitFrom(DatedLists(MaxIterPapers, {}), {"None"},
             {{"tokens"}, {"date", "tokens"}}, {FALSE})

CallOne == \E w \in 0 .. MaxWindow, st \in 0 .. MaxStep : SliceCall(1, w, st)

StepOne == SliceStep(1)

AbandonOne == SliceAbandon(1)

NextOne == CallOne \/ StepOne \/ AbandonOne

\* One generator on the corpus.
SliceSpec == InitSlice /\ [][NextOne]_vars

\* Two generators on the corpus, advanced in any interleaving.
IterSpec == InitIter /\ [][NextIter]_vars

\* One generator, whose consumer goes on calling next() as long as the
\* generator has not ended and was not dropped.
LiveSpec == InitIter /\ [][NextOne]_vars /\ WF_vars(StepOne)

(* ---------------------------- aggregation ----------------------------- *)

RECURSIVE SumSeq(_)
SumSeq(ns) == IF ns = <<>> THEN 0 ELSE Head(ns) + SumSeq(Tail(ns))

\* The weight a Feature gives a token.
WeightIn(feature, token) ==
    SumSeq([n \in DOMAIN feature |->
               IF feature[n][1] = token THEN feature[n][2] ELSE 0])

RECURSIVE SumOver(_, _, _)
SumOver(featureset, keys, token) ==
    IF keys = {} THEN 0
    ELSE LET k == CHOOSE k \in keys : TRUE
         IN  WeightIn(featureset[k], token) + SumOver(featureset, keys \ {k}, token)

\* FeatureSet.count(token): the weight of token summed over the Features
\* of the store.
FeatureSetCount(featureset, token) == SumOver(featureset, DOMAIN featureset, token)

RECURSIVE Slices(_, _, _, _, _, _, _)
\* list(self.slice(window_size, step_size)) from the while test on: the
\* pairs given, and how the generator ended.
Slices(store, c, window_size, step_size, start, end, acc) ==
    IF ~SliceFits(start, end, window_size) THEN [status |-> "ok", slices |-> acc]
    ELSE LET w == SliceWindow(store, c, start, window_size)
         IN  IF w.status # "ok" THEN [status |-> w.status, slices |-> acc]
             ELSE Slices(store, c, window_size, step_size,
                         NextStart(start, step_size), end,
                         Append(acc, [key |-> start, subcorpus |-> w.subcorpus]))

\* The for loop over self.slice(**slice_kwargs) of distribution and
\* feature_distribution, step_size >= 1.
AllSlices(store, c, window_size, step_size) ==
    LET dates == DOMAIN WithDateIndex(store, c).indices["date"]
    IN  IF dates = {} THEN [status |-> "ValueError", slices |-> <<>>]
        ELSE Slices(store, WithDateIndex(store, c), window_size, step_size,
                    Min(dates), Max(dates), <<>>)

\* Corpus.distribution(window_size, step_size)
Distribution(store, c, window_size, step_size) ==
    LET r == AllSlices(store, c, window_size, step_size)
    IN  IF r.status # "ok" THEN [status |-> r.status]
        ELSE [status |-> "ok",
              values |-> [n \in DOMAIN r.slices |->
                  Cardinality(DOMAIN r.slices[n].subcorpus.indexed_papers)]]

\* Corpus.feature_distribution(featureset_name, feature, mode,
\* window_size, step_size): mode is not read.
FeatureDistribution(store, c, featureset_name, feature, mode, window_size, step_size) ==
    LET r == AllSlices(store, c, window_size, step_size)
    IN  IF r.status # "ok" THEN [status |-> r.status]
        ELSE IF r.slices # <<>> /\ featureset_name \notin DOMAIN c.features
        THEN [status |-> "KeyError"]
        ELSE [status |-> "ok",
              keys |-> [n \in DOMAIN r.slices |-> r.slices[n].key],
              values |-> [n \in DOMAIN r.slices |->
                  FeatureSetCount(r.slices[n].subcorpus.features[featureset_name],
                                  feature)]]

DoDistribution ==
    \E w \in 1 .. MaxWindow, st \in 1 .. MaxStep :
        /\ res.op = "none"
        /\ res' = [op |-> "distribution", window_size |-> w, step_size |-> st,
                   out |-> Distribution(papers, corpus, w, st)]
        /\ corpus' = WithDateIndex(papers, corpus)
        /\ UNCHANGED <<papers, gen>>

DoFeatureDistribution ==
    \E name \in {"tokens", "citations"}, feature \in {"x", "y"},
       mode \in {"counts", "documentCounts"},
       w \in 1 .. MaxWindow, st \in 1 .. MaxStep :
        /\ res.op = "none"
        /\ res' = [op |-> "feature_distribution", featureset_name |-> name,
                   feature |-> feature, mode |-> mode,
                   window_size |-> w, step_size |-> st,
                   out |-> FeatureDistribution(papers, corpus, name, feature,
                                               mode, w, st)]
        /\ corpus' = WithDateIndex(papers, corpus)
        /\ UNCHANGED <<papers, gen>>

NextAgg == DoDistribution \/ DoFeatureDistribution

AggTokenValues ==
    { << <<"x", 1>>, <<"y", 2>> >>,
      << <<"x", 3>> >> }

InitAgg ==
    InitFrom(DatedLists(MaxSlicePapers, AggTokenValues), {"None"},
             {{"tokens"}}, {FALSE})

AggSpec == InitAgg /\ [][NextAgg]_vars

(* --------------------- claims on Spec: selection ---------------------- *)

PairSelect == res.op = "select" /\ res.selector.form = "pair"

Indexed(a, v) == a \in DOMAIN corpus.indices /\ v \in DOMAIN corpus.indices[a]

\* C8 as stated: a pair-form select raises a lookup error whenever the
\* attribute has no index, or the value (any one value of a list) is not
\* present under the attribute's index.
C8_LookupErrorWhenMissing ==
    PairSelect =>
        LET a == res.selector.index
            v == res.selector.value
            missing == \/ a \notin DOMAIN corpus.indices
                       \/ IF res.selector.islist
                          THEN \E n \in DOMAIN v : ~Indexed(a, v[n])
                          ELSE ~Indexed(a, v)
        IN  missing => res.out.status = "KeyError"

\* C8 amended: a pair-form select with a single value raises KeyError when
\* the attribute has no index or the value is not under it; with a list it
\* raises KeyError exactly when some value of the list is not present (so
\* for a non-empty list on an attribute without index), and the empty list
\* selects the empty result whatever the attribute.
C8_LookupErrorPerValue ==
    PairSelect =>
        LET a == res.selector.index
            v == res.selector.value
        IN  IF res.selector.islist
            THEN /\ (\E n \in DOMAIN v : ~Indexed(a, v[n]))
                        <=> res.out.status = "KeyError"
                 /\ v = <<>> => res.out = Returned(<<>>)
            ELSE /\ ~Indexed(a, v) <=> res.out.status = "KeyError"
                 /\ res.out.status = "ok" => res.out.papers # <<>>

\* A list selection that fails on its second value although the first is
\* present.
C8_Witness ==
    /\ PairSelect /\ res.selector.islist
    /\ Len(res.selector.value) = 2
    /\ Indexed(res.selector.index, res.selector.value[1])
    /\ ~Indexed(res.selector.index, res.selector.value[2])
    /\ res.out.status = "KeyError"

\* The Papers of the collection, in the order they were handed to the
\* constructor.
Live == {corpus.indexed_papers[k] : k \in DOMAIN corpus.indexed_papers}

DistinctKeys == CorpusLen(corpus) = Len(papers)

\* How many raw elements of attribute a of paper normalize to v.
Matches(paper, a, v) ==
    IF ~HasAttr(paper, a) THEN 0
    ELSE Cardinality({k \in DOMAIN Iterable(GetAttr(paper, a)) :
            Normalize(GetAttr(paper, a), Iterable(GetAttr(paper, a))[k]) = v})

RECURSIVE InInsertionOrder(_, _, _)
\* The live Papers from position n on whose attribute a includes v, each
\* once per matching raw element.
InInsertionOrder(a, v, n) ==
    IF n > Len(papers) THEN <<>>
    ELSE (IF n \in Live THEN [k \in 1 .. Matches(papers[n], a, v) |-> n] ELSE <<>>)
         \o InInsertionOrder(a, v, n + 1)

RECURSIVE InInsertionOrderAll(_, _)
InInsertionOrderAll(a, vs) ==
    IF vs = <<>> THEN <<>>
    ELSE InInsertionOrder(a, Head(vs), 1) \o InInsertionOrderAll(a, Tail(vs))

\* C4: select((a, v)) with v under indices[a] returns the documents whose
\* normalized a includes v in the order they were inserted, once per
\* matching raw element; a list of values gives the concatenation.
C4_SelectInInsertionOrder ==
    (PairSelect /\ res.out.status = "ok") =>
        res.out.papers =
            IF res.selector.islist
            THEN InInsertionOrderAll(res.selector.index, res.selector.value)
            ELSE InInsertionOrder(res.selector.index, res.selector.value, 1)

\* C5: with pairwise distinct keys, select(i) is the i-th Paper of the
\* construction list and select([i1, ..., ik]) the Papers at those places.
C5_PositionalInsertionOrder ==
    (res.op = "select" /\ DistinctKeys) =>
        /\ (res.selector.form = "int" /\ 0 <= res.selector.i
                /\ res.selector.i < Len(papers))
              => res.out = Returned(<<res.selector.i + 1>>)
        /\ (res.selector.form = "ints" /\ res.selector.items # <<>>
                /\ \A n \in DOMAIN res.selector.items :
                      0 <= res.selector.items[n] /\ res.selector.items[n] < Len(papers))
              => res.out = Returned([n \in DOMAIN res.selector.items |->
                                        res.selector.items[n] + 1])

\* C6: construction loses no document: the collection holds as many
\* documents as were supplied.
C6_NoDocumentLost == CorpusLen(corpus) = Len(papers)

(* -------------------- claims on Spec: sub-corpora --------------------- *)

SubcorpusBuilt == res.op = "subcorpus" /\ res.status = "ok"

\* C3: every store of a sub-corpus is the parent's store of that name cut
\* down to the keys of the selected documents, the Feature values being
\* the parent's.
C3_FeaturesFiltered ==
    SubcorpusBuilt =>
        LET childkeys == {GenerateIndex(corpus.index_by, papers[res.selected[n]]) :
                            n \in DOMAIN res.selected}
        IN  \A f \in DOMAIN corpus.features :
                /\ f \in DOMAIN res.corpus.features
                /\ DOMAIN res.corpus.features[f] =
                      DOMAIN corpus.features[f] \cap childkeys
                /\ \A k \in DOMAIN res.corpus.features[f] :
                      res.corpus.features[f][k] = corpus.features[f][k]

\* A sub-corpus that keeps some and drops some of the parent's entries of
\* the store a caller made.
C3_Witness ==
    /\ SubcorpusBuilt
    /\ DOMAIN res.corpus.features["scaled"] # {}
    /\ DOMAIN res.corpus.features["scaled"] # DOMAIN corpus.features["scaled"]

(* ------------------------- claims on slicing -------------------------- *)

Date(p) == GetAttr(papers[p], "date").val

DatedPapers == {p \in Live : HasAttr(papers[p], "date")}

\* The documents of the collection dated in [lo, hi).
DatedIn(lo, hi) == {p \in DatedPapers : lo <= Date(p) /\ Date(p) < hi}

MinDate == Min({Date(p) : p \in DatedPapers})

MaxDate == Max({Date(p) : p \in DatedPapers})

Members(content) ==
    {content.indexed_papers[k] : k \in DOMAIN content.indexed_papers}

Started(g) == g.pc \in {"loop", "yielded", "done"} \/ (g.pc = "raised" /\ "start" \in DOMAIN g)

\* C1: with window_size >= 1 and step_size >= 1 slice gives one pair for
\* each start = min + k * step_size with start <= max - (window_size - 1),
\* in that order and never failing, the key being start and the
\* sub-collection the documents dated in [start, start + window_size).
C1_SliceEmitsEveryWindow ==
    \A i \in DOMAIN gen :
        LET g == gen[i]
        IN  (g.pc # "none" /\ g.window_size >= 1 /\ g.step_size >= 1
                /\ DatedPapers # {}) =>
              /\ g.pc # "raised"
              /\ g.pc = "yielded" =>
                    /\ g.out.key = g.start
                    /\ g.out.key <= MaxDate - (g.window_size - 1)
                    /\ Members(g.out.subcorpus) =
                          DatedIn(g.out.key, g.out.key + g.window_size)
              /\ g.pc \in {"loop", "yielded", "done"} =>
                    /\ g.start >= MinDate
                    /\ (g.start - MinDate) % g.step_size = 0
              /\ (g.pc \in {"loop", "done"} /\ "out" \in DOMAIN g) =>
                    g.start = g.out.key + g.step_size
              /\ (g.pc \in {"loop", "done"} /\ "out" \notin DOMAIN g) =>
                    g.start = MinDate
              /\ g.pc = "done" => g.start > MaxDate - (g.window_size - 1)

TimePeriods(g) ==
    g.pc # "none" /\ g.window_size = g.step_size /\ g.window_size >= 1

\* C2 as stated, its coverage part: with window_size = step_size = W the
\* windows emitted cover [min, max], so that when the iteration has ended
\* every dated document was in one of them (the windows emitted are
\* [min, min + W), [min + W, min + 2W), ... up to the last start).
C2_TimePeriodsCoverAll ==
    \A i \in DOMAIN gen :
        (TimePeriods(gen[i]) /\ gen[i].pc = "done") =>
            \A p \in DatedPapers : Date(p) < gen[i].start

\* C2 amended: with window_size = step_size = W >= 1 the windows emitted
\* are [min + k * W, min + (k + 1) * W) for k = 0, 1, ... in that order,
\* each holding exactly the documents dated in it and none reaching past
\* max, so a dated document is in at most one of them; when the iteration
\* ends normally the years left after the last window are fewer than W,
\* and the documents dated there are in no window.
C2_TimePeriodsDisjoint ==
    \A i \in DOMAIN gen :
        LET g == gen[i]
            W == g.window_size
        IN  TimePeriods(g) =>
              /\ g.pc = "yielded" =>
                    /\ g.out.key = g.start
                    /\ g.out.key + W - 1 <= MaxDate
                    /\ Members(g.out.subcorpus) = DatedIn(g.out.key, g.out.key + W)
              /\ Started(g) =>
                    /\ g.start >= MinDate
                    /\ (g.start - MinDate) % W = 0
              /\ (g.pc \in {"loop", "done", "raised"} /\ "out" \in DOMAIN g) =>
                    g.start = g.out.key + W
              /\ (Started(g) /\ "out" \notin DOMAIN g) => g.start = MinDate
              /\ g.pc = "done" =>
                    /\ g.start + W - 1 > MaxDate
                    /\ \A p \in DatedPapers :
                          Date(p) >= g.start => MaxDate - g.start + 1 < W

\* Time-period slicing that ended normally leaving a dated document in no
\* window, after at least one window was emitted.
C2_Witness ==
    \E i \in DOMAIN gen :
        /\ TimePeriods(gen[i]) /\ gen[i].pc = "done"
        /\ "out" \in DOMAIN gen[i]
        /\ \E p \in DatedPapers : Date(p) >= gen[i].start

Finished(g) == g.pc \in {"done", "raised", "abandoned"}

\* C9: every slice iteration that is advanced reaches its end.
C9_SliceTerminates == (gen[1].pc = "created") ~> Finished(gen[1])

\* The sub-collection of the documents dated in [lo, hi): their keys, and
\* the parent's stores cut down to them.
WindowContent(lo, hi) ==
    LET keys == {k \in DOMAIN corpus.indexed_papers :
                    corpus.indexed_papers[k] \in DatedIn(lo, hi)}
    IN  [indexed_papers |-> [k \in keys |-> corpus.indexed_papers[k]],
         features |-> [f \in DOMAIN corpus.features |->
                          [k \in DOMAIN corpus.features[f] \cap keys |->
                              corpus.features[f][k]]]]

\* The states a generator in state g moves to when it is the only one,
\* read off the documents' dates.
AloneNext(g) ==
    CASE g.pc = "none" ->
           {[pc |-> "created", window_size |-> w, step_size |-> st] :
               w \in 0 .. MaxWindow, st \in 0 .. MaxStep}
      [] g.pc = "created" ->
           {[pc |-> "abandoned", window_size |-> g.window_size,
             step_size |-> g.step_size],
            IF DatedPapers = {}
            THEN [pc |-> "raised", err |-> "ValueError",
                  window_size |-> g.window_size, step_size |-> g.step_size]
            ELSE [pc |-> "loop", window_size |-> g.window_size,
                  step_size |-> g.step_size,
                  start |-> MinDate, end |-> MaxDate]}
      [] g.pc = "loop" ->
           {IF g.start + g.window_size - 1 > MaxDate
            THEN [g EXCEPT !.pc = "done"]
            ELSE IF \E y \in g.start .. (g.start + g.window_size - 1) :
                        DatedIn(y, y + 1) = {}
            THEN ("err" :> "KeyError") @@ [g EXCEPT !.pc = "raised"]
            ELSE ("out" :> [key |-> g.start,
                            subcorpus |->
                                WindowContent(g.start, g.start + g.window_size)])
                 @@ [g EXCEPT !.pc = "yielded"]}
      [] g.pc = "yielded" ->
           {[g EXCEPT !.pc = "loop", !.start = g.start + g.step_size],
            [pc |-> "abandoned", window_size |-> g.window_size,
             step_size |-> g.step_size]}
      [] OTHER -> {}

\* C10: however two iterators are interleaved (or one is dropped), each
\* goes through the states of an iterator run alone, so gives the same
\* keys and sub-collections, and no step changes the parent's documents or
\* stores; of the indices only the date index may appear.
C10_IteratorsIndependent ==
    [][/\ papers' = papers
       /\ corpus'.indexed_papers = corpus.indexed_papers
       /\ corpus'.order = corpus.order
       /\ corpus'.features = corpus.features
       /\ DOMAIN corpus'.indices \subseteq DOMAIN corpus.indices \cup {"date"}
       /\ \A a \in DOMAIN corpus.indices :
             a \in DOMAIN corpus'.indices /\ corpus'.indices[a] = corpus.indices[a]
       /\ \A i \in DOMAIN gen :
             gen'[i] = gen[i] \/ gen'[i] \in AloneNext(gen[i])]_vars

\* Two iterators with the same arguments suspended at different windows.
C10_Witness ==
    /\ gen[1].pc = "yielded" /\ gen[2].pc = "yielded"
    /\ gen[1].out.key > gen[2].out.key
    /\ Members(gen[1].out.subcorpus) # Members(gen[2].out.subcorpus)

(* ------------------------ claims on aggregation ----------------------- *)

RECURSIVE WindowStarts(_, _, _, _)
\* min, min + step, ... as long as a window of size w fits before max.
WindowStarts(start, end, w, st) ==
    IF start > end - (w - 1) THEN <<>>
    ELSE <<start>> \o WindowStarts(start + st, end, w, st)

RECURSIVE TotalWeight(_, _)
\* The weights of token summed over the tokens attribute of the Papers ps.
TotalWeight(ps, token) ==
    IF ps = {} THEN 0
    ELSE LET p == CHOOSE p \in ps : TRUE
         IN  (IF HasAttr(papers[p], "tokens")
              THEN WeightIn(GetAttr(papers[p], "tokens").val, token) ELSE 0)
             + TotalWeight(ps \ {p}, token)

\* The Papers among ps in which token occurs.
Occurs(ps, token) ==
    {p \in ps : /\ HasAttr(papers[p], "tokens")
                /\ \E n \in DOMAIN GetAttr(papers[p], "tokens").val :
                      GetAttr(papers[p], "tokens").val[n][1] = token}

\* C7: feature_distribution gives the window keys and, per slice, with
\* mode counts the summed weight of the feature over the slice's documents
\* and with mode documentCounts the number of the slice's documents in
\* which the feature occurs.
C7_FeatureDistributionModes ==
    (res.op = "feature_distribution" /\ res.out.status = "ok"
        /\ res.featureset_name = "tokens") =>
        LET starts == WindowStarts(MinDate, MaxDate, res.window_size, res.step_size)
        IN  /\ res.out.keys = starts
            /\ res.out.values =
                  [n \in DOMAIN starts |->
                      LET ps == DatedIn(starts[n], starts[n] + res.window_size)
                      IN  IF res.mode = "counts"
                          THEN TotalWeight(ps, res.feature)
                          ELSE Cardinality(Occurs(ps, res.feature))]

====
